---- MODULE Spec2Model ----
(***************************************************************************)
(* open-rpc-diff: comparison of two OpenRPC documents (src/main.rs).       *)
(*                                                                         *)
(* Three specifications share the definitions below:                       *)
(*   Spec      the whole run of main: prepare both documents, venn,        *)
(*             one step per common method, emission of the Summary.        *)
(*   SpecPair  main from the state after both prepare calls, for one       *)
(*             method with a wide range of signatures.                     *)
(*   SpecNorm  rewrite_schema_references on schema trees and documents.    *)
(*                                                                         *)
(* Strings that the program inspects character by character (schema        *)
(* references) are tuples of one-character strings.  Option<T> is a        *)
(* tuple of length 0 (None) or 1 (Some).  BTreeMap<String, T> is a         *)
(* function whose domain is a set of strings, BTreeSet<String> a set;      *)
(* their iteration order is NameOrder.                                     *)
(***************************************************************************)
EXTENDS Integers, Sequences, FiniteSets, TLC

VARIABLES
    \* ---- main ----
    args,               \* Args { left, right }
    fs,                 \* the file system: path -> file content
    pc,                 \* position of main
    left_definitions, left_methods, right_definitions, right_methods,
    only_left, common, only_right,   \* the three iterators returned by venn
    methods, compatible,             \* the accumulators of the loop
    calls,              \* history: the calls of diff made for each method
    stdout,             \* the Summary values written to standard output
    err,                \* the error the process ended with, if any
    \* ---- rewrite_schema_references ----
    phase, node, depth, document, rewritten, once, twice

mainVars == <<args, fs, pc, left_definitions, left_methods, right_definitions,
              right_methods, only_left, common, only_right, methods,
              compatible, calls, stdout, err>>
normVars == <<phase, node, depth, document, rewritten, once, twice>>
vars == <<mainVars, normVars>>

-----------------------------------------------------------------------------
(* Option<T> *)
None == <<>>
Some(x) == <<x>>
IsSome(o) == Len(o) = 1
IsNone(o) == Len(o) = 0
Unwrap(o) == o[1]
UnwrapOr(o, d) == IF Len(o) = 1 THEN o[1] ELSE d

Max(a, b) == IF a >= b THEN a ELSE b

-----------------------------------------------------------------------------
(* Bounds of the model *)
MaxDepth == 2       \* nesting depth of the generated schema trees
MaxParams == 2      \* longest parameter list of a generated method
MaxMethods == 2     \* longest method list of a generated document

-----------------------------------------------------------------------------
(* Reference strings *)
COMPONENTS_PREFIX ==
    <<"#","/","c","o","m","p","o","n","e","n","t","s","/",
      "s","c","h","e","m","a","s","/">>
DEFINITIONS_PREFIX ==
    <<"#","/","d","e","f","i","n","i","t","i","o","n","s","/">>

\* str::strip_prefix: the rest of s after prefix, or None
strip_prefix(s, prefix) ==
    IF Len(s) >= Len(prefix) /\ SubSeq(s, 1, Len(prefix)) = prefix
    THEN Some(SubSeq(s, Len(prefix) + 1, Len(s)))
    ELSE None

\* the rewrite of one `reference: Option<String>` field
rewrite_reference_keep_tail(reference) ==
    IF IsSome(reference) /\ IsSome(strip_prefix(Unwrap(reference), COMPONENTS_PREFIX))
    THEN Some(Unwrap(strip_prefix(Unwrap(reference), COMPONENTS_PREFIX)))
    ELSE reference

rewrite_reference(reference) ==
    IF IsSome(reference)
    THEN LET path == strip_prefix(Unwrap(reference), COMPONENTS_PREFIX)
         IN  IF IsSome(path)
             THEN Some(DEFINITIONS_PREFIX \o Unwrap(path))
             ELSE reference
    ELSE reference

-----------------------------------------------------------------------------
(* Schema trees (schemars::schema::Schema) *)
BoolSchema(b) == [kind |-> "Bool", value |-> b]

NoSubschemas ==
    [all_of |-> None, any_of |-> None, one_of |-> None, not |-> None,
     if_schema |-> None, then_schema |-> None, else_schema |-> None]
NoArray == [items |-> None, additional_items |-> None, contains |-> None]
NoMap == [k \in {} |-> None]
NoObject ==
    [properties |-> NoMap, pattern_properties |-> NoMap,
     additional_properties |-> None, property_names |-> None]

\* SchemaObject: the fields the program reads, plus instance_type and
\* extensions standing for the ones it only carries along
ObjectSchema(reference, instance_type, extensions) ==
    [kind |-> "Object", reference |-> reference, instance_type |-> instance_type,
     extensions |-> extensions, subschemas |-> None, array |-> None, object |-> None]

Single(s) == [kind |-> "Single", schema |-> s]
Vec(ss) == [kind |-> "Vec", schemas |-> ss]

RECURSIVE schema(_)

\* Option<Box<Schema>>
schema_opt(o) == IF IsSome(o) THEN Some(schema(Unwrap(o))) ELSE None
\* Option<Vec<Schema>>
schema_opt_vec(o) ==
    IF IsSome(o) THEN Some([i \in DOMAIN Unwrap(o) |-> schema(Unwrap(o)[i])]) ELSE None
\* BTreeMap<String, Schema>
schema_map(m) == [k \in DOMAIN m |-> schema(m[k])]
\* Option<SingleOrVec<Schema>>
schema_items(o) ==
    IF IsNone(o) THEN None
    ELSE IF Unwrap(o).kind = "Single"
         THEN Some(Single(schema(Unwrap(o).schema)))
         ELSE Some(Vec([i \in DOMAIN Unwrap(o).schemas |-> schema(Unwrap(o).schemas[i])]))

subschema_validation_skip_not(s) ==
    [all_of |-> schema_opt_vec(s.all_of),
     any_of |-> schema_opt_vec(s.any_of),
     one_of |-> schema_opt_vec(s.one_of),
     not |-> s.not,
     if_schema |-> schema_opt(s.if_schema),
     then_schema |-> schema_opt(s.then_schema),
     else_schema |-> schema_opt(s.else_schema)]

subschema_validation(s) ==
    [all_of |-> schema_opt_vec(s.all_of),
     any_of |-> schema_opt_vec(s.any_of),
     one_of |-> schema_opt_vec(s.one_of),
     not |-> schema_opt(s.not),
     if_schema |-> schema_opt(s.if_schema),
     then_schema |-> schema_opt(s.then_schema),
     else_schema |-> schema_opt(s.else_schema)]

array_validation(a) ==
    [items |-> schema_items(a.items),
     additional_items |-> schema_opt(a.additional_items),
     contains |-> schema_opt(a.contains)]

object_validation(o) ==
    [properties |-> schema_map(o.properties),
     pattern_properties |-> schema_map(o.pattern_properties),
     additional_properties |-> schema_opt(o.additional_properties),
     property_names |-> schema_opt(o.property_names)]

schema(n) ==
    IF n.kind = "Bool" THEN n
    ELSE [n EXCEPT
            !.reference = rewrite_reference(@),
            !.subschemas = IF IsSome(@) THEN Some(subschema_validation(Unwrap(@))) ELSE None,
            !.array = IF IsSome(@) THEN Some(array_validation(Unwrap(@))) ELSE None,
            !.object = IF IsSome(@) THEN Some(object_validation(Unwrap(@))) ELSE None]

\* ContentDescriptor
content_descriptor(cd) == [cd EXCEPT !.schema = schema(@)]

\* Components { content_descriptors, schemas }
rewrite_components(c) ==
    [content_descriptors |->
        IF IsSome(c.content_descriptors)
        THEN Some([k \in DOMAIN Unwrap(c.content_descriptors) |->
                     content_descriptor(Unwrap(c.content_descriptors)[k])])
        ELSE None,
     schemas |->
        IF IsSome(c.schemas) THEN Some(schema_map(Unwrap(c.schemas))) ELSE None]

rewrite_method(m) ==
    [m EXCEPT
       !.params = [i \in DOMAIN @ |-> content_descriptor(@[i])],
       !.result = IF IsSome(@) THEN Some(content_descriptor(Unwrap(@))) ELSE None]

\* OpenRPC { methods, components }
open_rpc(d) ==
    [methods |-> [i \in DOMAIN d.methods |-> rewrite_method(d.methods[i])],
     components |->
        IF IsSome(d.components) THEN Some(rewrite_components(Unwrap(d.components)))
        ELSE None]

-----------------------------------------------------------------------------
(* main: the sentinel, reading, prepare *)
NO_DESCRIPTOR_required ==
    [name |-> "", required |-> Some(TRUE), schema |-> BoolSchema(FALSE)]

NO_DESCRIPTOR ==
    [name |-> "", required |-> Some(FALSE), schema |-> BoolSchema(FALSE)]

\* the order of String keys in a BTreeMap / BTreeSet
NameOrder == <<"bar", "baz", "foo">>
\* the elements of a BTreeSet in iteration order
iter(set) == SelectSeq(NameOrder, LAMBDA n : n \in set)
Range(s) == {s[i] : i \in DOMAIN s}

Ok(v) == [ok |-> TRUE, value |-> v]
Err(e) == [ok |-> FALSE, error |-> e]

\* a missing file is read as an empty document
read_lenient(path) ==
    IF fs[path].kind = "document" THEN Ok(fs[path].document)
    ELSE IF fs[path].kind = "missing"
         THEN Ok([methods |-> <<>>, components |-> None])
         ELSE Err([context |-> "couldn't deserialize file", path |-> Some(path)])

read(path) ==
    IF fs[path].kind = "missing"
    THEN Err([context |-> "couldn't open file", path |-> Some(path)])
    ELSE IF fs[path].kind = "garbage"
         THEN Err([context |-> "couldn't deserialize file", path |-> Some(path)])
         ELSE Ok(fs[path].document)

\* fn method: (name, (params, result))
method(m) == <<m.name, <<m.params, m.result>>>>

\* Iterator::collect::<BTreeMap<_, _>>: a later pair replaces an earlier one
\* with the same key
collect(pairs) ==
    [k \in {pairs[i][1] : i \in DOMAIN pairs} |->
        pairs[CHOOSE i \in DOMAIN pairs :
                 /\ pairs[i][1] = k
                 /\ \A j \in DOMAIN pairs : j > i => pairs[j][1] # k][2]]

prepare(path) ==
    LET r == read(path)
    IN  IF ~r.ok THEN r
        ELSE LET doc == open_rpc(r.value)
                 definitions ==
                     UnwrapOr(UnwrapOr(doc.components,
                                       [content_descriptors |-> None, schemas |-> None]).schemas,
                              NoMap)
                 ms == collect([i \in DOMAIN doc.methods |-> method(doc.methods[i])])
             IN  Ok(<<definitions, ms>>)

venn_right_from_left(left, right) ==
    << iter({x \in left : x \notin right}),
       iter({x \in left : x \in right}),
       iter({x \in left : x \notin right}) >>

\* fn venn: (only_left, common, only_right)
venn(left, right) ==
    << iter({x \in left : x \notin right}),
       iter({x \in left : x \in right}),
       iter({x \in right : x \notin left}) >>

-----------------------------------------------------------------------------
(* diff *)
\* Schema::into_object
into_object(s) ==
    IF s.kind = "Object" THEN s
    ELSE IF s.value THEN ObjectSchema(None, None, {})
         ELSE [ObjectSchema(None, None, {}) EXCEPT
                 !.subschemas = Some([NoSubschemas EXCEPT
                                        !.not = Some(ObjectSchema(None, None, {}))])]

\* fn json: the RootSchema of a schema and its definitions, as a Value
json(s, definitions) ==
    [meta_schema |-> None, schema |-> into_object(s), definitions |-> definitions]

\* a Value in which the flattened schema brings a "$schema" entry that is not
\* a string does not read back as a RootSchema
ReadsAsRootSchema(v) == \A e \in v.schema.extensions : e[1] # "$schema"

SomeChanges ==
    << [path |-> "", change |-> [kind |-> "TypeRemove", removed |-> "string"]],
       [path |-> ".x", change |-> [kind |-> "RangeAdd", added |-> "minimum"]] >>

\* json_schema_diff::diff: the results it may give for two Values.  It fails
\* on a Value that is no RootSchema, finds no change between identical
\* Values, and for different Values finds changes or none.
json_schema_diff(lhs, rhs) ==
    IF ~ReadsAsRootSchema(lhs) \/ ~ReadsAsRootSchema(rhs)
    THEN {Err("failed to parse schema")}
    ELSE IF lhs = rhs THEN {Ok(<<>>)}
         ELSE {Ok(<<>>), Ok(SomeChanges)}

required_change_left_only(left, right) ==
    IF UnwrapOr(left.required, FALSE) THEN Some("Left") ELSE None

required_change_absent_is_required(left, right) ==
    LET l == UnwrapOr(left.required, TRUE)
        r == UnwrapOr(right.required, TRUE)
    IN  IF l /\ r THEN None
        ELSE IF l /\ ~r THEN Some("Left")
        ELSE IF ~l /\ r THEN Some("Right")
        ELSE None

required_change(left, right) ==
    LET l == UnwrapOr(left.required, FALSE)
        r == UnwrapOr(right.required, FALSE)
    IN  IF l /\ r THEN None
        ELSE IF l /\ ~r THEN Some("Left")
        ELSE IF ~l /\ r THEN Some("Right")
        ELSE None

diff_ignores_required(left, right, changes) ==
    IF changes = <<>> THEN None ELSE Some([kind |-> "Left", left |-> changes])

\* fn diff, given the Vec<Change> that json_schema_diff::diff(..).unwrap()
\* returned for the two schemas
diff(left, right, changes) ==
    LET schema_change == IF changes = <<>> THEN None ELSE Some(changes)
        rc == required_change(left, right)
    IN  IF IsNone(rc) /\ IsNone(schema_change) THEN None
        ELSE IF IsNone(rc) THEN Some([kind |-> "Left", left |-> Unwrap(schema_change)])
        ELSE IF IsNone(schema_change) THEN Some([kind |-> "Right", right |-> Unwrap(rc)])
        ELSE Some([kind |-> "Both", left |-> Unwrap(schema_change), right |-> Unwrap(rc)])

-----------------------------------------------------------------------------
(* mod summary *)
\* impl From<json_schema_diff::Change> for Change
ChangeFrom(value) ==
    LET c == value.change
        ks == CASE c.kind = "TypeAdd" -> <<"type-add", Some(c.added)>>
                [] c.kind = "TypeRemove" -> <<"type-remove", Some(c.removed)>>
                [] c.kind = "ConstAdd" -> <<"const-add", Some(c.added)>>
                [] c.kind = "ConstRemove" -> <<"const-remove", Some(c.removed)>>
                [] c.kind = "PropertyAdd" -> <<"property-add", Some(c.added)>>
                [] c.kind = "PropertyRemove" -> <<"property-remove", Some(c.removed)>>
                [] c.kind = "RangeAdd" -> <<"range-add", None>>
                [] c.kind = "RangeRemove" -> <<"range-remove", None>>
                [] c.kind = "RangeChange" -> <<"range-change", None>>
                [] c.kind = "TupleToArray" -> <<"tuple-to-array", None>>
                [] c.kind = "ArrayToTuple" -> <<"array-to-tuple", None>>
                [] c.kind = "TupleChange" -> <<"tuple-change", None>>
                [] c.kind = "RequiredRemove" -> <<"required-remove", Some(c.property)>>
                [] c.kind = "RequiredAdd" -> <<"required-add", Some(c.property)>>
    IN  [path |-> value.path, kind |-> ks[1], of |-> ks[2]]

\* impl From<EitherOrBoth<..>> for ContentDescriptorChange
ContentDescriptorChangeFrom(value) ==
    LET change == IF value.kind \in {"Left", "Both"} THEN Some(value.left) ELSE None
        required == IF value.kind \in {"Right", "Both"} THEN Some(value.right) ELSE None
    IN  [changes |-> IF IsSome(change)
                     THEN [i \in DOMAIN Unwrap(change) |-> ChangeFrom(Unwrap(change)[i])]
                     ELSE <<>>,
         required |-> required]

-----------------------------------------------------------------------------
(* main *)
\* itertools pad_using: s, then d until the length is at least n
pad_using_nothing(s, n, d) == s

pad_using(s, n, d) ==
    [i \in 1..Max(Len(s), n) |-> IF i <= Len(s) THEN s[i] ELSE d]

zip(a, b) ==
    [i \in 1..(IF Len(a) <= Len(b) THEN Len(a) ELSE Len(b)) |-> <<a[i], b[i]>>]

PrepareLeft ==
    /\ pc = "prepare_left"
    /\ LET r == prepare(args.left)
       IN  IF r.ok
           THEN /\ left_definitions' = r.value[1]
                /\ left_methods' = r.value[2]
                /\ pc' = "prepare_right"
                /\ err' = err
           ELSE /\ pc' = "error"
                /\ err' = Some(r.error)
                /\ UNCHANGED <<left_definitions, left_methods>>
    /\ UNCHANGED <<args, fs, right_definitions, right_methods, only_left, common,
                   only_right, methods, compatible, calls, stdout>>
    /\ UNCHANGED normVars

PrepareRight ==
    /\ pc = "prepare_right"
    /\ LET r == prepare(args.right)
       IN  IF r.ok
           THEN /\ right_definitions' = r.value[1]
                /\ right_methods' = r.value[2]
                /\ pc' = "venn"
                /\ err' = err
           ELSE /\ pc' = "error"
                /\ err' = Some(r.error)
                /\ UNCHANGED <<right_definitions, right_methods>>
    /\ UNCHANGED <<args, fs, left_definitions, left_methods, only_left, common,
                   only_right, methods, compatible, calls, stdout>>
    /\ UNCHANGED normVars

\* lines 45-51: the name sets, venn, the empty accumulators
Venn ==
    /\ pc = "venn"
    /\ LET left_names == DOMAIN left_methods
           right_names == DOMAIN right_methods
           v == venn(left_names, right_names)
       IN  /\ only_left' = v[1]
           /\ common' = v[2]
           /\ only_right' = v[3]
    /\ methods' = NoMap
    /\ compatible' = <<>>
    /\ pc' = "loop"
    /\ UNCHANGED <<args, fs, left_definitions, left_methods, right_definitions,
                   right_methods, calls, stdout, err>>
    /\ UNCHANGED normVars

\* the sequences whose i-th element is one of choices[i]
RECURSIVE Answers(_)
Answers(choices) ==
    IF choices = <<>> THEN {<<>>}
    ELSE {Append(front, last) :
             front \in Answers(SubSeq(choices, 1, Len(choices) - 1)),
             last \in choices[Len(choices)]}

\* lines 61-76: the diffs of the padded, zipped, enumerated parameter
\* lists that are Some, each with its index; None if there is none
param_diffs_of(outs) ==
    LET found == SelectSeq([i \in DOMAIN outs |-> <<i - 1, outs[i]>>],
                           LAMBDA x : IsSome(x[2]))
    IN  IF found = <<>> THEN None ELSE Some(found)

\* lines 91-98: the MethodChange of the diffs found
MethodChange(param_diffs, result_diff) ==
    LET flat == UnwrapOr(param_diffs, <<>>)
    IN  [parameter |->
            [ix \in {flat[j][1] : j \in DOMAIN flat} |->
                ContentDescriptorChangeFrom(
                    Unwrap((CHOOSE x \in Range(flat) : x[1] = ix)[2]))],
         result |->
            IF IsSome(result_diff)
            THEN Some(ContentDescriptorChangeFrom(Unwrap(result_diff)))
            ELSE None]

\* every pair of descriptors given to diff for the method: the parameters
\* by position, then the returns
pairs_of(name) ==
    LET left_params == left_methods[name][1]
        left_return == left_methods[name][2]
        right_params == right_methods[name][1]
        right_return == right_methods[name][2]
        common_length == Max(Len(left_params), Len(right_params))
    IN  Append(zip(pad_using(left_params, common_length, NO_DESCRIPTOR),
                   pad_using(right_params, common_length, NO_DESCRIPTOR)),
               <<UnwrapOr(left_return, NO_DESCRIPTOR),
                 UnwrapOr(right_return, NO_DESCRIPTOR)>>)

\* one iteration of `for method in common`
DiffMethod ==
    /\ pc = "loop"
    /\ common # <<>>
    /\ \E name \in {Head(common)} :
       \E all \in {pairs_of(name)} :
       \E results \in Answers([i \in DOMAIN all |->
                                 json_schema_diff(json(all[i][1].schema, left_definitions),
                                                  json(all[i][2].schema, right_definitions))]) :
          IF \E i \in DOMAIN all : ~results[i].ok
          THEN \* .unwrap() on an Err: the process panics
               /\ pc' = "panic"
               /\ err' = Some([context |-> "called Result::unwrap() on an Err value",
                               path |-> None])
               /\ UNCHANGED <<common, methods, compatible, calls>>
          ELSE \E outs \in {[i \in DOMAIN all |->
                               diff(all[i][1], all[i][2], results[i].value)]} :
               \E param_diffs \in {param_diffs_of(SubSeq(outs, 1, Len(outs) - 1))} :
               \E result_diff \in {outs[Len(outs)]} :
                  /\ IF IsNone(param_diffs) /\ IsNone(result_diff)
                     THEN /\ compatible' = Append(compatible, name)
                          /\ methods' = methods
                     ELSE /\ compatible' = compatible
                          /\ methods' =
                               [k \in DOMAIN methods \cup {name} |->
                                  IF k = name THEN MethodChange(param_diffs, result_diff)
                                  ELSE methods[k]]
                  /\ calls' =
                       [k \in DOMAIN calls \cup {name} |->
                          IF k = name
                          THEN [i \in DOMAIN all |->
                                  [left |-> all[i][1], right |-> all[i][2],
                                   changes |-> results[i].value, out |-> outs[i]]]
                          ELSE calls[k]]
                  /\ common' = Tail(common)
                  /\ pc' = "loop"
                  /\ err' = err
    /\ UNCHANGED <<args, fs, left_definitions, left_methods, right_definitions,
                   right_methods, only_left, only_right, stdout>>
    /\ UNCHANGED normVars

\* lines 102-111: the Summary, written once to standard output (which is
\* taken to be writable: serde_yaml::to_writer succeeds)
Emit ==
    /\ pc = "loop"
    /\ common = <<>>
    /\ LET summary == [equivalent |-> compatible,
                       different |-> methods,
                       left |-> only_left,
                       right |-> only_right]
       IN  stdout' = Append(stdout, summary)
    /\ only_left' = <<>>
    /\ only_right' = <<>>
    /\ pc' = "done"
    /\ UNCHANGED <<args, fs, left_definitions, left_methods, right_definitions,
                   right_methods, common, methods, compatible, calls, err>>
    /\ UNCHANGED normVars

-----------------------------------------------------------------------------
(* Spec: the whole run, over small documents *)
Descriptor(required, s) == [name |-> "p", required |-> required, schema |-> s]
RefTo(name) == COMPONENTS_PREFIX \o <<name>>

SFalse == BoolSchema(FALSE)
SString == ObjectSchema(None, Some("string"), {})
SRef == ObjectSchema(Some(RefTo("A")), None, {})
SCanonicalRef == ObjectSchema(Some(DEFINITIONS_PREFIX \o <<"A">>), None, {})
SMalformed == ObjectSchema(None, None, {<<"$schema", 5>>})

Method(name, params, result) == [name |-> name, params |-> params, result |-> result]

MainMethods ==
    { Method("bar", <<Descriptor(Some(TRUE), SRef)>>, Some(Descriptor(None, SString))),
      Method("bar", <<Descriptor(None, SCanonicalRef), Descriptor(None, SFalse)>>, None),
      Method("foo", <<Descriptor(Some(TRUE), SRef)>>, Some(Descriptor(None, SString))),
      Method("foo", <<Descriptor(Some(FALSE), SMalformed)>>, None),
      Method("baz", <<>>, None) }

FullComponents ==
    Some([content_descriptors |-> Some([k \in {"c"} |-> Descriptor(None, SRef)]),
          schemas |-> Some([k \in {"A"} |-> SString])])

EmptyComponents == Some([content_descriptors |-> None, schemas |-> None])

MainComponents == {None, FullComponents}

MainDocuments ==
    {[methods |-> ms, components |-> c] :
        ms \in UNION {[1..n -> MainMethods] : n \in 0..MaxMethods},
        c \in MainComponents}

File(d) == [kind |-> "document", document |-> d]
Missing == [kind |-> "missing"]
Garbage == [kind |-> "garbage"]

Paths == {"a.json", "b.json"}

NormIdle ==
    /\ phase = "idle" /\ node = None /\ depth = 0
    /\ document = None /\ rewritten = None /\ once = None /\ twice = None

NotStarted ==
    /\ left_definitions = NoMap /\ left_methods = NoMap
    /\ right_definitions = NoMap /\ right_methods = NoMap
    /\ only_left = <<>> /\ common = <<>> /\ only_right = <<>>
    /\ methods = NoMap /\ compatible = <<>> /\ calls = NoMap
    /\ stdout = <<>> /\ err = None

Init ==
    /\ args \in {[left |-> "a.json", right |-> r] : r \in Paths}
    /\ fs \in [Paths -> {Missing, Garbage} \cup {File(d) : d \in MainDocuments}]
    /\ (args.right = "a.json" => fs["b.json"] = Missing)
    /\ pc = "prepare_left"
    /\ NotStarted
    /\ NormIdle

Next ==
    \/ PrepareLeft
    \/ PrepareRight
    \/ Venn
    \/ DiffMethod
    \/ Emit

Spec == Init /\ [][Next]_vars

-----------------------------------------------------------------------------
(* SpecPair: main after both prepare calls, one method, many signatures *)
PairDescriptors ==
    { Descriptor(Some(TRUE), SString),
      Descriptor(None, SString),
      Descriptor(None, SFalse) }

PairReturns ==
    {None, Some(Descriptor(Some(FALSE), SRef)), Some(Descriptor(None, SMalformed))}

PairParams == UNION {[1..n -> PairDescriptors] : n \in 0..MaxParams}

InitPair ==
    /\ args = [left |-> "a.json", right |-> "b.json"]
    /\ \E lp \in PairParams, rp \in PairParams, lr \in PairReturns, rr \in PairReturns,
          rc \in {None, EmptyComponents, FullComponents} :
          fs = [p \in Paths |->
                  IF p = "a.json"
                  THEN File([methods |-> <<Method("foo", lp, lr)>>,
                             components |-> FullComponents])
                  ELSE File([methods |-> <<Method("foo", rp, rr)>>,
                             components |-> rc])]
    /\ left_definitions = prepare(args.left).value[1]
    /\ left_methods = prepare(args.left).value[2]
    /\ right_definitions = prepare(args.right).value[1]
    /\ right_methods = prepare(args.right).value[2]
    /\ pc = "venn"
    /\ only_left = <<>> /\ common = <<>> /\ only_right = <<>>
    /\ methods = NoMap /\ compatible = <<>> /\ calls = NoMap
    /\ stdout = <<>> /\ err = None
    /\ NormIdle

NextPair ==
    \/ Venn
    \/ DiffMethod
    \/ Emit

SpecPair == InitPair /\ [][NextPair]_vars

-----------------------------------------------------------------------------
(* Statements about main *)
Required(d) == UnwrapOr(d.required, FALSE)
NoDuplicates(s) == \A i, j \in DOMAIN s : s[i] = s[j] => i = j
\* the method was diffed and did not fail
Diffed(n) == n \in DOMAIN calls

\* C1: the three groups of venn are pairwise disjoint, their union is
\* L \cup R, and they are L \ R, L \cap R and R \ L.
C1_VennPartition ==
    (pc = "loop" /\ DOMAIN calls = {}) =>
        LET L == DOMAIN left_methods
            R == DOMAIN right_methods
            A == Range(only_left)
            B == Range(common)
            C == Range(only_right)
        IN  /\ A = L \ R /\ B = L \cap R /\ C = R \ L
            /\ A \cap B = {} /\ A \cap C = {} /\ B \cap C = {}
            /\ A \cup B \cup C = L \cup R
            /\ NoDuplicates(only_left) /\ NoDuplicates(common) /\ NoDuplicates(only_right)

\* venn has just returned three non-empty groups
C1_Witness ==
    /\ pc = "loop" /\ DOMAIN calls = {}
    /\ only_left # <<>>
    /\ common # <<>>
    /\ only_right # <<>>

\* some pair of descriptors of the method differs
HasDiff(n) ==
    \E i \in DOMAIN calls[n] :
        \/ calls[n][i].changes # <<>>
        \/ Required(calls[n][i].left) # Required(calls[n][i].right)

\* C2: in the emitted Summary every method name of either document is in
\* exactly one of equivalent, different, left, right: a common method with a
\* diff in `different`, one without in `equivalent`, a left-only name in
\* `left`, a right-only name in `right`.
C2_SummaryPartition ==
    pc = "done" =>
        LET s == stdout[1]
            L == DOMAIN left_methods
            R == DOMAIN right_methods
            E == Range(s.equivalent)
            D == DOMAIN s.different
            A == Range(s.left)
            B == Range(s.right)
        IN  /\ E \cup D \cup A \cup B = L \cup R
            /\ E \cap D = {} /\ E \cap A = {} /\ E \cap B = {}
            /\ D \cap A = {} /\ D \cap B = {} /\ A \cap B = {}
            /\ NoDuplicates(s.equivalent) /\ NoDuplicates(s.left) /\ NoDuplicates(s.right)
            /\ \A n \in L \ R : n \in A
            /\ \A n \in R \ L : n \in B
            /\ \A n \in L \cap R : IF HasDiff(n) THEN n \in D ELSE n \in E

\* a Summary with a different method and a left-only one
C2_Witness ==
    /\ pc = "done"
    /\ DOMAIN stdout[1].different # {}
    /\ stdout[1].left # <<>>
    /\ \E n \in DOMAIN stdout[1].different :
          /\ stdout[1].different[n].parameter # NoMap
          /\ \A i \in DOMAIN calls[n] : calls[n][i].changes = <<>>

\* C6: a document compared with itself gives a Summary with nothing in
\* different, left and right, and every method name in equivalent.
C6_Reflexive ==
    (pc = "done" /\ fs[args.left] = fs[args.right]) =>
        LET s == stdout[1]
            doc == fs[args.left].document
            names == {doc.methods[i].name : i \in DOMAIN doc.methods}
        IN  /\ DOMAIN s.different = {}
            /\ s.left = <<>>
            /\ s.right = <<>>
            /\ Range(s.equivalent) = names
            /\ Len(s.equivalent) = Cardinality(names)

\* two files with the same two-method document were compared
C6_Witness ==
    /\ pc = "done"
    /\ args.left # args.right
    /\ fs[args.left] = fs[args.right]
    /\ Len(fs[args.left].document.methods) = 2
    /\ Len(stdout[1].equivalent) = 2

\* every descriptor pair of the common method n is one json_schema_diff accepts
PairsWellFormed(n) ==
    /\ \A i \in DOMAIN left_methods[n][1] :
          ReadsAsRootSchema(json(left_methods[n][1][i].schema, left_definitions))
    /\ \A i \in DOMAIN right_methods[n][1] :
          ReadsAsRootSchema(json(right_methods[n][1][i].schema, right_definitions))
    /\ IsSome(left_methods[n][2]) =>
          ReadsAsRootSchema(json(Unwrap(left_methods[n][2]).schema, left_definitions))
    /\ IsSome(right_methods[n][2]) =>
          ReadsAsRootSchema(json(Unwrap(right_methods[n][2]).schema, right_definitions))

\* C7: a failure to load either document or to diff any descriptor pair ends
\* the run in an error with nothing written; a Summary is written only once
\* every common method has been diffed successfully.
C7_NoPartialSummary ==
    /\ stdout # <<>> => (pc = "done" /\ Len(stdout) = 1)
    /\ pc \in {"error", "panic"} => stdout = <<>>
    /\ fs[args.left].kind # "document" => pc \in {"prepare_left", "error"}
    /\ fs[args.right].kind # "document" => pc \in {"prepare_left", "prepare_right", "error"}
    /\ pc = "done" =>
          \A n \in DOMAIN left_methods \cap DOMAIN right_methods :
              /\ Diffed(n)
              /\ PairsWellFormed(n)
              /\ Len(calls[n]) = Max(Len(left_methods[n][1]), Len(right_methods[n][1])) + 1
              /\ n \in Range(stdout[1].equivalent) \cup DOMAIN stdout[1].different

\* one common method was diffed, the next one failed, nothing was written
C7_Witness ==
    /\ pc = "panic"
    /\ DOMAIN calls # {}
    /\ stdout = <<>>

\* C8: every error names the input document that caused it.
C8_EveryErrorNamesDocument ==
    pc \in {"error", "panic"} =>
        /\ IsSome(err)
        /\ IsSome(Unwrap(err).path)
        /\ Unwrap(Unwrap(err).path) \in {args.left, args.right}

\* C3: for a method diffed with parameter lists of lengths a and b, the
\* pairs given to diff are positions 0..max(a,b)-1 of the two lists, the
\* shorter one continued with the sentinel, then the two returns (the
\* sentinel for an absent one); the keys of the parameter mapping are the
\* positions with a diff; the method is compatible iff no pair has a diff.
C3_PositionalPairing ==
    \A n \in DOMAIN calls :
        LET lp == left_methods[n][1]
            rp == right_methods[n][1]
            N == Max(Len(lp), Len(rp))
            c == calls[n]
            keys == IF n \in DOMAIN methods THEN DOMAIN methods[n].parameter ELSE {}
        IN  /\ Len(c) = N + 1
            /\ \A i \in 0..(N - 1) :
                  /\ c[i + 1].left = IF i < Len(lp) THEN lp[i + 1] ELSE NO_DESCRIPTOR
                  /\ c[i + 1].right = IF i < Len(rp) THEN rp[i + 1] ELSE NO_DESCRIPTOR
            /\ c[N + 1].left = UnwrapOr(left_methods[n][2], NO_DESCRIPTOR)
            /\ c[N + 1].right = UnwrapOr(right_methods[n][2], NO_DESCRIPTOR)
            /\ keys = {i \in 0..(N - 1) : IsSome(c[i + 1].out)}
            /\ (n \in Range(compatible)) = (\A i \in 1..(N + 1) : IsNone(c[i].out))
            /\ (n \in DOMAIN methods) = (n \notin Range(compatible))
            /\ n \in DOMAIN methods =>
                  IsSome(methods[n].result) = IsSome(c[N + 1].out)

\* lists of different lengths, a diff at the last position only
C3_Witness ==
    \E n \in DOMAIN calls :
        /\ n \in DOMAIN methods
        /\ Len(left_methods[n][1]) = 1
        /\ Len(right_methods[n][1]) = MaxParams
        /\ DOMAIN methods[n].parameter = {MaxParams - 1}
        /\ IsNone(methods[n].result)

RequiredOf(out) ==
    IF IsSome(out) /\ Unwrap(out).kind \in {"Right", "Both"}
    THEN Some(Unwrap(out).right) ELSE None

\* C4: the Required Change of diff depends on the two required flags alone
\* (absent is false): none for equal flags, Left for true/false, Right for
\* false/true; and diff gives None exactly when there is no Required Change
\* and no structural change.
C4_RequiredChange ==
    \A n \in DOMAIN calls : \A i \in DOMAIN calls[n] :
        LET c == calls[n][i]
            l == c.left.required = Some(TRUE)
            r == c.right.required = Some(TRUE)
        IN  /\ (l = r) => RequiredOf(c.out) = None
            /\ (l /\ ~r) => RequiredOf(c.out) = Some("Left")
            /\ (~l /\ r) => RequiredOf(c.out) = Some("Right")
            /\ IsNone(c.out) = (l = r /\ c.changes = <<>>)

\* diff saw an absent flag against Some(false), and a required descriptor
\* against an optional one with no structural change
C4_Witness ==
    \E n \in DOMAIN calls :
        /\ \E i \in DOMAIN calls[n] :
              /\ calls[n][i].left.required = None
              /\ calls[n][i].right.required = Some(FALSE)
              /\ IsNone(calls[n][i].out)
        /\ \E i \in DOMAIN calls[n] :
              /\ calls[n][i].left.required = Some(TRUE)
              /\ calls[n][i].right.required = None
              /\ calls[n][i].changes = <<>>
              /\ calls[n][i].out = Some([kind |-> "Right", right |-> "Left"])

\* the positions the left list has beyond the end of the right list
ExtraLeft(n) == {i \in 0..(Len(left_methods[n][1]) - 1) : i >= Len(right_methods[n][1])}

\* C5 as stated: every extra trailing parameter of the left is a key of the
\* method's parameter mapping.
C5_NoSilentDrop ==
    \A n \in DOMAIN calls : \A i \in ExtraLeft(n) :
        /\ n \in DOMAIN methods
        /\ i \in DOMAIN methods[n].parameter

\* C5 amended: an extra trailing parameter of the left that is required, or
\* whose schema has a structural change against the sentinel's, is a key of
\* the parameter mapping with a non-empty change (a required one with the
\* required change Left); an extra parameter that is not required and has
\* no structural change against the sentinel has no entry.
C5_ExtraReportedUnlessLikeSentinel ==
    \A n \in DOMAIN calls : \A i \in ExtraLeft(n) :
        LET p == left_methods[n][1][i + 1]
            c == calls[n][i + 1]
            reported == n \in DOMAIN methods /\ i \in DOMAIN methods[n].parameter
        IN  /\ c.right.schema = BoolSchema(FALSE)
            /\ reported = (p.required = Some(TRUE) \/ c.changes # <<>>)
            /\ reported =>
                  LET e == methods[n].parameter[i]
                  IN  /\ e.required = IF p.required = Some(TRUE) THEN Some("Left") ELSE None
                      /\ Len(e.changes) = Len(c.changes)
                      /\ (e.changes # <<>> \/ IsSome(e.required))

\* two extra trailing parameters on the left: a required one that is
\* reported and a `false`, not required one that is not
C5_Witness ==
    \E n \in DOMAIN calls :
        /\ Cardinality(ExtraLeft(n)) >= 2
        /\ n \in DOMAIN methods
        /\ \E i \in ExtraLeft(n) :
              /\ left_methods[n][1][i + 1].required = Some(TRUE)
              /\ i \in DOMAIN methods[n].parameter
        /\ \E i \in ExtraLeft(n) :
              /\ left_methods[n][1][i + 1].schema = BoolSchema(FALSE)
              /\ i \notin DOMAIN methods[n].parameter

-----------------------------------------------------------------------------
(* Schema trees and documents given to rewrite_schema_references *)
Sibling == ObjectSchema(Some(RefTo("B")), None, {})

Leaves ==
    { BoolSchema(FALSE),
      ObjectSchema(None, Some("string"), {}),
      ObjectSchema(Some(RefTo("A")), None, {}),
      \* the prefix twice
      ObjectSchema(Some(COMPONENTS_PREFIX \o RefTo("A")), None, {}),
      \* already canonical
      ObjectSchema(Some(DEFINITIONS_PREFIX \o <<"A">>), None, {}),
      \* the prefix without its last character
      ObjectSchema(Some(SubSeq(COMPONENTS_PREFIX, 1, Len(COMPONENTS_PREFIX) - 1)
                        \o <<"A">>), None, {}),
      \* the prefix, but not at the start
      ObjectSchema(Some(<<"x">> \o RefTo("A")), Some("string"), {<<"$schema", 5>>}) }

VecSlots == {"all_of", "any_of", "one_of"}
BoxSlots == {"not", "if_schema", "then_schema", "else_schema"}
ArraySlots == {"items_single", "items_vec", "additional_items", "contains"}
ObjectSlots == {"properties", "pattern_properties", "additional_properties",
                "property_names"}

\* a parent node: rich parents carry a reference of their own and a sibling
\* in every other child slot of the same group
Parent(rich) == ObjectSchema(IF rich THEN Some(RefTo("B")) ELSE None, None, {})

SubschemasWith(slot, rich, n) ==
    LET base == IF rich
                THEN [all_of |-> Some(<<Sibling>>), any_of |-> Some(<<Sibling, Sibling>>),
                      one_of |-> Some(<<>>), not |-> Some(Sibling),
                      if_schema |-> Some(Sibling), then_schema |-> Some(Sibling),
                      else_schema |-> Some(Sibling)]
                ELSE NoSubschemas
    IN  [base EXCEPT ![slot] = IF slot \in VecSlots
                               THEN Some(IF rich THEN <<Sibling, n>> ELSE <<n>>)
                               ELSE Some(n)]

ArrayWith(slot, rich, n) ==
    LET base == IF rich
                THEN [items |-> Some(Single(Sibling)), additional_items |-> Some(Sibling),
                      contains |-> Some(Sibling)]
                ELSE NoArray
    IN  IF slot = "items_single" THEN [base EXCEPT !.items = Some(Single(n))]
        ELSE IF slot = "items_vec"
             THEN [base EXCEPT !.items = Some(Vec(IF rich THEN <<n, Sibling>> ELSE <<n>>))]
             ELSE [base EXCEPT ![slot] = Some(n)]

ObjectWith(slot, rich, n) ==
    LET base == IF rich
                THEN [properties |-> [k \in {"y"} |-> Sibling],
                      pattern_properties |-> [k \in {"^z"} |-> Sibling],
                      additional_properties |-> Some(Sibling),
                      property_names |-> Some(Sibling)]
                ELSE NoObject
    IN  IF slot \in {"properties", "pattern_properties"}
        THEN [base EXCEPT ![slot] = [k \in {"x"} \cup DOMAIN @ |->
                                        IF k = "x" THEN n ELSE @[k]]]
        ELSE [base EXCEPT ![slot] = Some(n)]

DocShapes == {"full", "sparse", "bare"}

MkDocument(shape, n) ==
    IF shape = "full"
    THEN [methods |-> <<[name |-> "foo",
                         params |-> <<Descriptor(None, Sibling), Descriptor(Some(TRUE), n)>>,
                         result |-> Some(Descriptor(None, n))]>>,
          components |-> Some([content_descriptors |->
                                   Some([k \in {"c"} |-> Descriptor(None, n)]),
                               schemas |->
                                   Some([k \in {"A", "B"} |->
                                           IF k = "A" THEN n ELSE Sibling])])]
    ELSE IF shape = "sparse"
    THEN [methods |-> <<[name |-> "foo", params |-> <<Descriptor(None, n)>>,
                         result |-> None],
                        [name |-> "bar", params |-> <<>>,
                         result |-> Some(Descriptor(Some(FALSE), n))]>>,
          components |-> Some([content_descriptors |-> None, schemas |-> None])]
    ELSE [methods |-> <<[name |-> "foo", params |-> <<>>,
                         result |-> Some(Descriptor(None, n))]>>,
          components |-> None]

-----------------------------------------------------------------------------
(* SpecNorm: the reference normalizer *)
MainIdle ==
    /\ args = None /\ fs = None /\ pc = "idle"
    /\ left_definitions = None /\ left_methods = None
    /\ right_definitions = None /\ right_methods = None
    /\ only_left = {} /\ common = {} /\ only_right = {}
    /\ methods = None /\ compatible = <<>> /\ calls = None
    /\ stdout = <<>> /\ err = None

InitNorm ==
    /\ MainIdle
    /\ phase = "build"
    /\ node \in Leaves
    /\ depth = 0
    /\ document = None /\ rewritten = None /\ once = None /\ twice = None

Grow(n) ==
    /\ phase = "build"
    /\ depth < MaxDepth
    /\ node' = n
    /\ depth' = depth + 1
    /\ UNCHANGED <<phase, document, rewritten, once, twice>>
    /\ UNCHANGED mainVars

\* the first parent of a leaf is of either sort; above it rich and plain
\* parents alternate
RichChoices == IF depth = 0 THEN BOOLEAN ELSE {IsNone(node.reference)}

WrapSubschemas ==
    \E slot \in VecSlots \cup BoxSlots, rich \in RichChoices :
        Grow([Parent(rich) EXCEPT !.subschemas = Some(SubschemasWith(slot, rich, node))])

WrapArray ==
    \E slot \in ArraySlots, rich \in RichChoices :
        Grow([Parent(rich) EXCEPT !.array = Some(ArrayWith(slot, rich, node))])

WrapObject ==
    \E slot \in ObjectSlots, rich \in RichChoices :
        Grow([Parent(rich) EXCEPT !.object = Some(ObjectWith(slot, rich, node))])

\* prepare's call of rewrite_schema_references::open_rpc on a document
RewriteDocument ==
    /\ phase = "build"
    /\ \E shape \in DocShapes :
       \E d \in {MkDocument(shape, node)} :
          /\ document' = d
          /\ rewritten' = open_rpc(d)
    /\ phase' = "document"
    /\ UNCHANGED <<node, depth, once, twice>>
    /\ UNCHANGED mainVars

\* rewrite_schema_references::schema on one tree
RewriteSchema ==
    /\ phase = "build"
    /\ once' = schema(node)
    /\ phase' = "schema"
    /\ UNCHANGED <<node, depth, document, rewritten, twice>>
    /\ UNCHANGED mainVars

\* ... and on its own result
RewriteSchemaAgain ==
    /\ phase = "schema"
    /\ twice' = schema(once)
    /\ phase' = "again"
    /\ UNCHANGED <<node, depth, document, rewritten, once>>
    /\ UNCHANGED mainVars

NextNorm ==
    \/ WrapSubschemas
    \/ WrapArray
    \/ WrapObject
    \/ RewriteDocument
    \/ RewriteSchema
    \/ RewriteSchemaAgain

SpecNorm == InitNorm /\ [][NextNorm]_vars

-----------------------------------------------------------------------------
(* The nodes of a tree by position, for the statements about the normalizer *)
VecKids(slot, o) ==
    IF IsSome(o) THEN {<<slot, i, "", Unwrap(o)[i]>> : i \in DOMAIN Unwrap(o)} ELSE {}
BoxKids(slot, o) == IF IsSome(o) THEN {<<slot, 0, "", Unwrap(o)>>} ELSE {}
MapKids(slot, m) == {<<slot, 0, k, m[k]>> : k \in DOMAIN m}

Children(n) ==
    IF n.kind = "Bool" THEN {}
    ELSE (IF IsSome(n.subschemas)
          THEN LET s == Unwrap(n.subschemas)
               IN  UNION {VecKids(slot, s[slot]) : slot \in VecSlots}
                   \cup UNION {BoxKids(slot, s[slot]) : slot \in BoxSlots}
          ELSE {})
         \cup
         (IF IsSome(n.array)
          THEN LET a == Unwrap(n.array)
               IN  (IF IsNone(a.items) THEN {}
                    ELSE IF Unwrap(a.items).kind = "Single"
                         THEN {<<"items", 0, "", Unwrap(a.items).schema>>}
                         ELSE {<<"items", i, "", Unwrap(a.items).schemas[i]>> :
                                  i \in DOMAIN Unwrap(a.items).schemas})
                   \cup BoxKids("additional_items", a.additional_items)
                   \cup BoxKids("contains", a.contains)
          ELSE {})
         \cup
         (IF IsSome(n.object)
          THEN LET o == Unwrap(n.object)
               IN  MapKids("properties", o.properties)
                   \cup MapKids("pattern_properties", o.pattern_properties)
                   \cup BoxKids("additional_properties", o.additional_properties)
                   \cup BoxKids("property_names", o.property_names)
          ELSE {})

\* every node of the tree, with the path that leads to it
RECURSIVE Nodes(_)
Nodes(n) ==
    {<<<<>>, n>>} \cup
    UNION {{<< <<<<c[1], c[2], c[3]>>>> \o pn[1], pn[2] >> : pn \in Nodes(c[4])} :
              c \in Children(n)}

\* every schema tree of a document, with its place in the document
DocTrees(d) ==
    UNION {{<<"param", i, j, "", d.methods[i].params[j].schema>> :
               j \in DOMAIN d.methods[i].params} : i \in DOMAIN d.methods}
    \cup UNION {IF IsSome(d.methods[i].result)
                THEN {<<"result", i, 0, "", Unwrap(d.methods[i].result).schema>>}
                ELSE {} : i \in DOMAIN d.methods}
    \cup (IF IsSome(d.components) /\ IsSome(Unwrap(d.components).content_descriptors)
          THEN LET m == Unwrap(Unwrap(d.components).content_descriptors)
               IN  {<<"content_descriptor", 0, 0, k, m[k].schema>> : k \in DOMAIN m}
          ELSE {})
    \cup (IF IsSome(d.components) /\ IsSome(Unwrap(d.components).schemas)
          THEN LET m == Unwrap(Unwrap(d.components).schemas)
               IN  {<<"schema", 0, 0, k, m[k]>> : k \in DOMAIN m}
          ELSE {})

DocNodes(d) ==
    UNION {{<< <<t[1], t[2], t[3], t[4]>>, pn[1], pn[2] >> : pn \in Nodes(t[5])} :
              t \in DocTrees(d)}

HasComponentsPrefix(s) ==
    /\ Len(s) >= Len(COMPONENTS_PREFIX)
    /\ \A i \in 1..Len(COMPONENTS_PREFIX) : s[i] = COMPONENTS_PREFIX[i]

\* the reference the statement expects in place of r
ExpectedReference(r) ==
    IF IsSome(r) /\ HasComponentsPrefix(Unwrap(r))
    THEN LET s == Unwrap(r)
             n == Len(s) - Len(COMPONENTS_PREFIX) + Len(DEFINITIONS_PREFIX)
         IN  Some([i \in 1..n |->
                     IF i <= Len(DEFINITIONS_PREFIX) THEN DEFINITIONS_PREFIX[i]
                     ELSE s[i - Len(DEFINITIONS_PREFIX) + Len(COMPONENTS_PREFIX)]])
    ELSE r

\* a node without its children
Local(n) ==
    IF n.kind = "Bool" THEN <<"Bool", n.value, None, None, {}, {}>>
    ELSE <<"Object", FALSE, n.reference, n.instance_type, n.extensions,
           {<<"subschemas", IsSome(n.subschemas)>>, <<"array", IsSome(n.array)>>,
            <<"object", IsSome(n.object)>>}>>

\* Local(n) with the reference the statement expects
ExpectedLocal(n) ==
    IF n.kind = "Bool" THEN Local(n)
    ELSE [Local(n) EXCEPT ![3] = ExpectedReference(n.reference)]

\* what of a document is not a schema tree
DocumentFrame(d) ==
    [methods |-> [i \in DOMAIN d.methods |->
                    [name |-> d.methods[i].name,
                     params |-> [j \in DOMAIN d.methods[i].params |->
                                   [d.methods[i].params[j] EXCEPT !.schema = None]],
                     result |-> IF IsSome(d.methods[i].result)
                                THEN Some([Unwrap(d.methods[i].result) EXCEPT !.schema = None])
                                ELSE None]],
     components |-> IsSome(d.components)]

\* C10: after open_rpc, the document has the same trees with the same nodes
\* at the same places; every reference that began with
\* "#/components/schemas/" has that prefix replaced once by "#/definitions/",
\* every other reference and every other part of every node is unchanged.
C10_AllReferencesRewritten ==
    phase = "document" =>
        /\ DocumentFrame(rewritten) = DocumentFrame(document)
        /\ {<<a[1], a[2], Local(a[3])>> : a \in DocNodes(rewritten)}
             = {<<b[1], b[2], ExpectedLocal(b[3])>> : b \in DocNodes(document)}

\* a document holding a rewritten reference two levels down, in every place
C10_Witness ==
    /\ phase = "document"
    /\ depth = MaxDepth
    /\ rewritten # document
    /\ \A place \in {"param", "result", "content_descriptor", "schema"} :
          \E b \in DocNodes(document) :
              /\ b[1][1] = place
              /\ Len(b[2]) >= 2
              /\ b[3].kind = "Object"
              /\ IsSome(b[3].reference)
              /\ HasComponentsPrefix(Unwrap(b[3].reference))

\* C9: schema applied to its own result changes nothing.
C9_Idempotent == phase = "again" => twice = once

\* a tree with a reference that holds the prefix twice was normalized twice
C9_Witness ==
    /\ phase = "again"
    /\ once # node
    /\ \E pn \in Nodes(node) :
          /\ pn[2].kind = "Object"
          /\ IsSome(pn[2].reference)
          /\ HasComponentsPrefix(Unwrap(pn[2].reference))
          /\ HasComponentsPrefix(SubSeq(Unwrap(pn[2].reference),
                                        Len(COMPONENTS_PREFIX) + 1,
                                        Len(Unwrap(pn[2].reference))))

====
